---- MODULE Spec2Model ----
(***************************************************************************)
(* A model of the three scripts of bubcass/digital-volume:                 *)
(*   fetch_debates_2026.py        the date-range fetch loop (SpecFetch)    *)
(*                                and looks_like_xml (SpecSniff)           *)
(*   generate_available_dates.py  the index generator (SpecIndex)          *)
(*   up_to_HF.py                  the bulk upload (SpecUpload)             *)
(* Text is modelled as sequences of code points (str) or byte values       *)
(* (bytes); a comment beside each literal gives the text it stands for.    *)
(***************************************************************************)
EXTENDS Integers, Sequences, FiniteSets, TLC

VARIABLES
    \* fetch_debates_2026.py, main()
    START_DATE, END_DATE, d, saved, missing, r, pc, files, events, stdout, raised,
    \* fetch_debates_2026.py, looks_like_xml() applied to one body
    content, verdict,
    \* generate_available_dates.py, main()
    listing, ix, dates, ipc, output, iout,
    \* up_to_HF.py, main()
    dirExists, dirFiles, upc, uout, uploads

fetchVars == <<START_DATE, END_DATE, d, saved, missing, r, pc, files, events, stdout, raised>>
sniffVars == <<content, verdict>>
indexVars == <<listing, ix, dates, ipc, output, iout>>
uploadVars == <<dirExists, dirFiles, upc, uout, uploads>>
vars == <<fetchVars, sniffVars, indexVars, uploadVars>>

----------------------------------------------------------------------------
\* Bounds of the model

\* longest date range [START_DATE, END_DATE] explored, in days
MaxDays == 2
\* longest run of filler bytes appended to a body prefix
MaxFill == 104
\* longest remote listing explored
MaxFiles == 3
\* most progress reports upload_large_folder prints in one call
MaxReports == 2

----------------------------------------------------------------------------
\* Text helpers

Fill(c, n) == [i \in 1..n |-> c]

StartsWith(s, p) == Len(s) >= Len(p) /\ SubSeq(s, 1, Len(p)) = p

RECURSIVE SeqLess(_, _)
\* Python's ordering of two str (or bytes): by code point, a proper prefix first
SeqLess(a, b) ==
    IF b = <<>> THEN FALSE
    ELSE IF a = <<>> THEN TRUE
    ELSE IF Head(a) # Head(b) THEN Head(a) < Head(b)
    ELSE SeqLess(Tail(a), Tail(b))

----------------------------------------------------------------------------
\* datetime.date as <<year, month, day>>

IsLeap(y) == (y % 4 = 0) /\ ((y % 100 # 0) \/ (y % 400 = 0))

DaysInMonth(y, m) ==
    IF m = 2 THEN (IF IsLeap(y) THEN 29 ELSE 28)
    ELSE IF m \in {4, 6, 9, 11} THEN 30 ELSE 31

\* d + dt.timedelta(days=1)
AddOneDay(x) ==
    IF x[3] < DaysInMonth(x[1], x[2]) THEN <<x[1], x[2], x[3] + 1>>
    ELSE IF x[2] < 12 THEN <<x[1], x[2] + 1, 1>>
    ELSE <<x[1] + 1, 1, 1>>

\* a <= b on dates
DateLE(a, b) ==
    \/ a[1] < b[1]
    \/ a[1] = b[1] /\ a[2] < b[2]
    \/ a[1] = b[1] /\ a[2] = b[2] /\ a[3] <= b[3]

Digit(n) == 48 + n

\* d.isoformat(): "%04d-%02d-%02d"
isoformat(x) ==
    << Digit((x[1] \div 1000) % 10), Digit((x[1] \div 100) % 10),
       Digit((x[1] \div 10) % 10), Digit(x[1] % 10), 45,
       Digit((x[2] \div 10) % 10), Digit(x[2] % 10), 45,
       Digit((x[3] \div 10) % 10), Digit(x[3] % 10) >>

----------------------------------------------------------------------------
\* looks_like_xml(content: bytes) -> bool

\* the smallest body length looks_like_xml accepts
MinXmlLen == 100
\* the number of leading bytes looks_like_xml inspects
HeadLen == 500

\* bytes.lstrip() strips space, \t, \n, \v, \f, \r
IsSpaceByte(b) == b \in {9, 10, 11, 12, 13, 32}

\* content.lstrip(): content from its first byte that is no white space on
lstrip(s) ==
    IF \A i \in 1..Len(s) : IsSpaceByte(s[i]) THEN <<>>
    ELSE LET k == CHOOSE i \in 1..Len(s) : ~IsSpaceByte(s[i]) /\ \A j \in 1..(i - 1) : IsSpaceByte(s[j])
         IN  SubSeq(s, k, Len(s))

\* bytes.lower() maps A-Z to a-z and leaves every other byte alone
lower(s) == [i \in 1..Len(s) |-> IF s[i] \in 65..90 THEN s[i] + 32 ELSE s[i]]

\* s[:n]
Slice(s, n) == SubSeq(s, 1, IF Len(s) < n THEN Len(s) ELSE n)

DoctypeHtml == <<60, 33, 100, 111, 99, 116, 121, 112, 101, 32, 104, 116, 109, 108>> \* <!doctype html
HtmlTag == <<60, 104, 116, 109, 108>>   \* <html
XmlDecl == <<60, 63, 120, 109, 108>>    \* <?xml
Lt == <<60>>                            \* <

\* the head without .lower(): the prefixes are compared case-sensitively
head_of_cased(c) == Slice(lstrip(c), HeadLen)

\* content.lstrip()[:500].lower()
head_of(c) == lower(Slice(lstrip(c), HeadLen))

\* looks_like_xml without its length test
looks_like_xml_nolen(c) ==
    IF c = <<>> THEN FALSE
    ELSE IF StartsWith(lower(Slice(lstrip(c), HeadLen)), DoctypeHtml)
            \/ StartsWith(lower(Slice(lstrip(c), HeadLen)), HtmlTag) THEN FALSE
    ELSE StartsWith(lower(Slice(lstrip(c), HeadLen)), XmlDecl)
            \/ StartsWith(lower(Slice(lstrip(c), HeadLen)), Lt)

looks_like_xml(c) ==
    IF c = <<>> \/ Len(c) < MinXmlLen THEN FALSE
    ELSE IF StartsWith(head_of(c), DoctypeHtml) \/ StartsWith(head_of(c), HtmlTag) THEN FALSE
    ELSE StartsWith(head_of(c), XmlDecl) \/ StartsWith(head_of(c), Lt)

----------------------------------------------------------------------------
\* looks_like_xml applied to one response body (SpecSniff)

\* s with the letters at the positions in U in upper case
CaseMix(s, U) == [i \in 1..Len(s) |-> IF i \in U /\ s[i] \in 97..122 THEN s[i] - 32 ELSE s[i]]

\* how response bodies may begin
Prefixes ==
    {CaseMix(HtmlTag, U) : U \in SUBSET (2..5)}
    \cup {CaseMix(DoctypeHtml, U) : U \in {{}, 3..9, 3..14, {3}, {14}, {4, 6, 8, 11, 13}}}
    \cup { XmlDecl, CaseMix(XmlDecl, 3..5), Lt, <<>>,
           <<60, 97, 62>>,                         \* <a>
           <<60, 104, 116, 109>>,                  \* <htm
           <<60, 33, 45, 45>>,                     \* <!--
           <<123, 34, 97, 34, 58>>,                \* {"a":
           <<78, 111, 116, 32, 70, 111, 117, 110, 100>> }  \* Not Found

\* leading white space of a body
LeadSpaces == { <<>>, <<32>>, <<13, 10, 9>>, <<11, 12>>, Fill(32, HeadLen) }

FillLens == (0..MaxFill) \cup {HeadLen}

Bodies == { w \o p \o Fill(97, n) : w \in LeadSpaces, p \in Prefixes, n \in FillLens }

\* one call of looks_like_xml(content); verdict holds the value returned
Sniff ==
    /\ verdict = <<>>
    /\ verdict' = <<looks_like_xml(content)>>
    /\ UNCHANGED content
    /\ UNCHANGED <<fetchVars, indexVars, uploadVars>>

----------------------------------------------------------------------------
\* fetch_debates_2026.py, main() (SpecFetch)

BASE_URL == "https://data.oireachtas.ie/akn/ie/debateRecord/dail"
\* SLEEP_SECONDS = 0.3, in tenths of a second
SLEEP_TENTHS == 3

MulXmlSuffix == <<95, 109, 117, 108, 64, 46, 120, 109, 108>>   \* _mul@.xml

\* f"{BASE_URL}/{date_str}/debate/mul@/main.xml"
url_of(date_str) == <<BASE_URL, "/", date_str, "/debate/mul@/main.xml">>

\* the output file named once, before the loop, for START_DATE
out_file_of_start(date_str) == isoformat(START_DATE) \o MulXmlSuffix

\* (OUT_DIR / f"{date_str}_mul@.xml").name
out_file_of(date_str) == date_str \o MulXmlSuffix

\* while d <= END_DATE
LoopCond(x, end) == DateLE(x, end)

\* date.toordinal(): days since 0001-01-01, that day being 1
RECURSIVE DaysBeforeMonth(_, _)
DaysBeforeMonth(y, m) == IF m = 1 THEN 0 ELSE DaysBeforeMonth(y, m - 1) + DaysInMonth(y, m - 1)

toordinal(x) ==
    365 * (x[1] - 1) + ((x[1] - 1) \div 4) - ((x[1] - 1) \div 100) + ((x[1] - 1) \div 400)
    + DaysBeforeMonth(x[1], x[2]) + x[3]

\* the dates START_DATE is set to: the source's 2026-01-01, the last day of a 28-day
\* February, of a 30-day month and of a year, and the eve of a 29 February
StartDates == { <<2026, 1, 1>>, <<2026, 2, 28>>, <<2028, 2, 28>>, <<2026, 4, 30>>, <<2027, 12, 31>> }

Calendar ==
    { x \in (2025..2028) \X (1..12) \X (1..31) : x[3] <= DaysInMonth(x[1], x[2]) }

\* dt.date.today() is any day from the eve of START_DATE on, within the bound
EndDates(start) ==
    { e \in Calendar : toordinal(e) - toordinal(start) \in (-1)..(MaxDays - 1) }

\* bodies the server answers with
GoodXml == XmlDecl \o Fill(97, MinXmlLen)
ShortXml == XmlDecl \o Fill(97, 10)
HtmlPage == CaseMix(DoctypeHtml, 3..9) \o Fill(97, MinXmlLen)
OldXml == Lt \o Fill(98, MinXmlLen)

Statuses == {200, 404, 500}
Responses == [status : Statuses, content : {GoodXml, ShortXml, HtmlPage, <<>>}]
NoResponse == [status |-> 0, content |-> <<>>]

\* what session.get(url, timeout=30) does: returns a response or raises
GetOutcomes == {"response", "raises"}
\* what lines 63-65 do: write the file, count it and print its name; or write and
\* count it and raise in print (a stdout that cannot take the line); or raise in
\* write_bytes on open (file untouched) or after the file was opened for writing
\* (file truncated, a proper prefix of the body in it)
SaveOutcomes == {"written", "print raises", "open raises", "write raises"}

\* what a print of the except clause does: prints the line, or raises
PrintOutcomes == {"printed", "print raises"}

\* the file as write_bytes leaves it when it raises after opening it: any proper
\* prefix of the body, the empty one included
PartialWrites(c) == { Slice(c, k) : k \in 0..(Len(c) - 1) }

\* the three lines of the summary
SummaryLines(s, m) == << <<"Done">>, <<"Saved XMLs", s>>, <<"No record / skipped", m>> >>

\* files with the file name changed to hold c
WriteFile(fs, name, c) == [n \in DOMAIN fs \cup {name} |-> IF n = name THEN c ELSE fs[n]]

NoFiles == [n \in {} |-> <<>>]

\* what OUT_DIR.mkdir(exist_ok=True) does: makes the directory or finds it there, or
\* raises (no home directory to make it in, a file of that name in the way, or a
\* home directory that may not be searched, whatever OUT_DIR holds)
MkdirOutcomes == {"made", "mkdir raises"}

\* line 38-50: the output directory is made, the session set up and the loop
\* variables set; a mkdir that raises ends the run before the loop
Start(outcome) ==
    /\ pc = "start"
    /\ \/ /\ outcome = "made"
          /\ d' = START_DATE
          /\ saved' = 0
          /\ missing' = 0
          /\ pc' = "while"
       \/ /\ outcome = "mkdir raises"
          /\ pc' = "aborted"
          /\ UNCHANGED <<d, saved, missing>>
    /\ UNCHANGED <<START_DATE, END_DATE, r, files, events, stdout, raised>>
    /\ UNCHANGED <<sniffVars, indexVars, uploadVars>>

\* line 52-58: the loop test holds and the request for d is issued
Get(outcome) ==
    /\ pc = "while"
    /\ LoopCond(d, END_DATE)
    /\ events' = Append(events, [op |-> "get", url |-> url_of(isoformat(d))])
    /\ \/ /\ outcome = "response"
          /\ \E resp \in Responses : r' = resp
          /\ pc' = "status"
       \/ /\ outcome = "raises"
          /\ UNCHANGED r
          /\ pc' = "except"
    /\ UNCHANGED <<START_DATE, END_DATE, d, saved, missing, files, stdout, raised>>
    /\ UNCHANGED <<sniffVars, indexVars, uploadVars>>

\* line 60-61
Status404 ==
    /\ pc = "status"
    /\ r.status = 404
    /\ missing' = missing + 1
    /\ pc' = "advance"
    /\ UNCHANGED <<START_DATE, END_DATE, d, saved, r, files, events, stdout, raised>>
    /\ UNCHANGED <<sniffVars, indexVars, uploadVars>>

\* line 62-65
StatusSave(outcome) ==
    /\ pc = "status"
    /\ r.status # 404
    /\ r.status = 200 /\ looks_like_xml(r.content)
    /\ \/ /\ outcome = "written"
          /\ files' = WriteFile(files, out_file_of(isoformat(d)), r.content)
          /\ saved' = saved + 1
          /\ stdout' = Append(stdout, <<"saved", out_file_of(isoformat(d))>>)
          /\ pc' = "advance"
       \/ /\ outcome = "print raises"
          /\ files' = WriteFile(files, out_file_of(isoformat(d)), r.content)
          /\ saved' = saved + 1
          /\ pc' = "except"
          /\ UNCHANGED stdout
       \/ /\ outcome = "open raises"
          /\ pc' = "except"
          /\ UNCHANGED <<files, saved, stdout>>
       \/ /\ outcome = "write raises"
          /\ \E part \in PartialWrites(r.content) :
                files' = WriteFile(files, out_file_of(isoformat(d)), part)
          /\ pc' = "except"
          /\ UNCHANGED <<saved, stdout>>
    /\ UNCHANGED <<START_DATE, END_DATE, d, missing, r, events, raised>>
    /\ UNCHANGED <<sniffVars, indexVars, uploadVars>>

\* line 66-67
StatusOther ==
    /\ pc = "status"
    /\ r.status # 404
    /\ ~(r.status = 200 /\ looks_like_xml(r.content))
    /\ missing' = missing + 1
    /\ pc' = "advance"
    /\ UNCHANGED <<START_DATE, END_DATE, d, saved, r, files, events, stdout, raised>>
    /\ UNCHANGED <<sniffVars, indexVars, uploadVars>>

\* line 69-70: the exception is caught and logged; raised counts the iterations that
\* reach the except clause. The print of the clause is outside any try: when it
\* raises, the exception leaves main() and the run ends there
Except(outcome) ==
    /\ pc = "except"
    /\ raised' = raised + 1
    /\ \/ /\ outcome = "printed"
          /\ stdout' = Append(stdout, <<"warning", isoformat(d)>>)
          /\ pc' = "advance"
       \/ /\ outcome = "print raises"
          /\ pc' = "crashed"
          /\ UNCHANGED stdout
    /\ UNCHANGED <<START_DATE, END_DATE, d, saved, missing, r, files, events>>
    /\ UNCHANGED <<sniffVars, indexVars, uploadVars>>

\* line 72-73
Advance ==
    /\ pc = "advance"
    /\ d' = AddOneDay(d)
    /\ events' = Append(events, [op |-> "sleep", url |-> <<SLEEP_TENTHS>>])
    /\ pc' = "while"
    /\ UNCHANGED <<START_DATE, END_DATE, saved, missing, r, files, stdout, raised>>
    /\ UNCHANGED <<sniffVars, indexVars, uploadVars>>

\* line 52, 75-77: the loop test fails and the summary is printed; a print that
\* raises ends the run with the first k of the three lines printed
Summary(k) ==
    /\ pc = "while"
    /\ ~LoopCond(d, END_DATE)
    /\ stdout' = stdout \o SubSeq(SummaryLines(saved, missing), 1, k)
    /\ pc' = IF k = 3 THEN "done" ELSE "crashed"
    /\ UNCHANGED <<START_DATE, END_DATE, d, saved, missing, r, files, events, raised>>
    /\ UNCHANGED <<sniffVars, indexVars, uploadVars>>

----------------------------------------------------------------------------
\* generate_available_dates.py, main() (SpecIndex)

\* the code points re's \d matches in a str pattern: Unicode category Nd, whose
\* members come in runs of ten starting at these code points
NdZeros ==
    { 48, 1632, 1776, 1984, 2406, 2534, 2662, 2790, 2918, 3046, 3174, 3302, 3430, 3558,
      3664, 3792, 3872, 4160, 4240, 6112, 6160, 6470, 6608, 6784, 6800, 6992, 7088, 7232,
      7248, 42528, 43216, 43264, 43472, 43504, 43600, 44016, 65296, 66720, 68912, 69734,
      69872, 69942, 70096, 70384, 70736, 70864, 71248, 71360, 71472, 71904, 72016, 72784,
      73040, 73120, 92768, 92864, 93008, 120782, 120792, 120802, 120812, 120822, 123200,
      123632, 125264, 130032 }

\* \d
IsDigit(c) == \E z \in NdZeros : c \in z..(z + 9)

\* \d{4}-\d{2}-\d{2} on a string of ten code points
DateShape(s) ==
    /\ Len(s) = 10
    /\ \A i \in {1, 2, 3, 4, 6, 7, 9, 10} : IsDigit(s[i])
    /\ s[5] = 45 /\ s[8] = 45

\* $ without re.MULTILINE: at the end of the string, or before a newline that ends it
AtDollar(f, pos) == pos = Len(f) + 1 \/ (pos = Len(f) /\ f[pos] = 10)

\* the pattern (\d{4}-\d{2}-\d{2})_mul@\.xml$ matches f from position i on
MatchAt(f, i) ==
    /\ i + 18 <= Len(f)
    /\ DateShape(SubSeq(f, i, i + 9))
    /\ SubSeq(f, i + 10, i + 18) = MulXmlSuffix
    /\ AtDollar(f, i + 19)

\* date_pattern.search(f): <<m.group(1)>> of the leftmost match, <<>> for None
date_pattern_search(f) ==
    IF \E i \in 1..Len(f) : MatchAt(f, i)
    THEN LET i == CHOOSE j \in 1..Len(f) : MatchAt(f, j) /\ \A k \in 1..(j - 1) : ~MatchAt(f, k)
         IN  <<SubSeq(f, i, i + 9)>>
    ELSE <<>>

RECURSIVE sorted(_)
\* sorted(dates): ascending by code point
sorted(S) ==
    IF S = {} THEN <<>>
    ELSE LET m == CHOOSE x \in S : \A y \in S \ {x} : SeqLess(x, y)
         IN  <<m>> \o sorted(S \ {m})

HexDigit(n) == IF n < 10 THEN 48 + n ELSE 87 + n

\* \uXXXX
Escape4(n) ==
    <<92, 117, HexDigit((n \div 4096) % 16), HexDigit((n \div 256) % 16),
      HexDigit((n \div 16) % 16), HexDigit(n % 16)>>

\* json.dumps of one code point of a date string (ensure_ascii=True); a date string
\* holds digits and hyphens only, so no quote, backslash or control escape arises
JsonChar(c) ==
    IF c < 128 THEN <<c>>
    ELSE IF c < 65536 THEN Escape4(c)
    ELSE Escape4(55296 + ((c - 65536) \div 1024)) \o Escape4(56320 + ((c - 65536) % 1024))

RECURSIVE JsonChars(_)
JsonChars(s) == IF s = <<>> THEN <<>> ELSE JsonChar(Head(s)) \o JsonChars(Tail(s))

JsonString(s) == <<34>> \o JsonChars(s) \o <<34>>

RECURSIVE JsonItems(_)
\* the items of a non-empty list under indent=2, each on a line of its own
JsonItems(l) ==
    IF Len(l) = 1 THEN <<10, 32, 32>> \o JsonString(l[1]) \o <<10>>
    ELSE <<10, 32, 32>> \o JsonString(l[1]) \o <<44>> \o JsonItems(Tail(l))

\* json.dumps(sorted_dates, indent=2)
json_dumps(l) == IF l = <<>> THEN <<91, 93>> ELSE <<91>> \o JsonItems(l) \o <<93>>

OUTPUT == "data/available-dates.json"

Iso0201 == <<50, 48, 50, 54, 45, 48, 50, 45, 48, 49>>   \* 2026-02-01
Iso0203 == <<50, 48, 50, 54, 45, 48, 50, 45, 48, 51>>   \* 2026-02-03
Iso1231 == <<50, 48, 50, 53, 45, 49, 50, 45, 51, 49>>   \* 2025-12-31
NotesTxt == <<110, 111, 116, 101, 115, 46, 116, 120, 116>>   \* notes.txt

\* names api.list_repo_files may return
FileNames ==
    { Iso0201 \o MulXmlSuffix,
      Iso0203 \o MulXmlSuffix,
      NotesTxt,
      <<100, 97, 105, 108, 47>> \o Iso0201 \o MulXmlSuffix,                \* dail/2026-02-01_mul@.xml
      Iso1231 \o MulXmlSuffix,
      <<49>> \o Iso1231 \o MulXmlSuffix,                                    \* 12025-12-31_mul@.xml
      Iso0203 \o MulXmlSuffix \o <<10>>,                                    \* 2026-02-03_mul@.xml\n
      Iso0201 \o MulXmlSuffix \o <<46, 98, 97, 107>>,                       \* 2026-02-01_mul@.xml.bak
      Iso0201 \o <<95, 109, 117, 108, 64, 120, 120, 109, 108>>,             \* 2026-02-01_mul@xxml
      <<50, 48, 50, 54, 45, 49, 51, 45, 52, 53>> \o MulXmlSuffix,           \* 2026-13-45_mul@.xml
      <<50, 48, 50, 54, 45, 50, 45, 49>> \o MulXmlSuffix,                   \* 2026-2-1_mul@.xml
      <<1634, 1632, 1634, 1638, 45, 48, 50, 45, 48, 49>> \o MulXmlSuffix }  \* 2026-02-01 with Arabic-Indic year digits

Listings == UNION { [1..n -> FileNames] : n \in 0..MaxFiles }

\* what line 14-18 may do: print the opening line and get the listing; the print
\* may raise, and so may the listing call (no network, no such dataset)
ListOutcomes == {"listed", "print raises", "list raises"}

DATASET == "bubcass/oireachtas-debates"

\* the line 16 prints
ListingLine == <<"Listing files in dataset", DATASET>>

\* an index file an earlier run left at OUTPUT
OldIndex == json_dumps(<<Iso1231>>)

\* line 14-22: the opening line is printed, the remote listing fetched and the set
\* of dates started empty; a print or a listing call that raises ends the run
IndexList(outcome) ==
    /\ ipc = "start"
    /\ \/ /\ outcome = "listed"
          /\ iout' = Append(iout, ListingLine)
          /\ \E l \in Listings : listing' = l
          /\ dates' = {}
          /\ ix' = 1
          /\ ipc' = "for"
       \/ /\ outcome = "print raises"
          /\ ipc' = "error"
          /\ UNCHANGED <<iout, listing, dates, ix>>
       \/ /\ outcome = "list raises"
          /\ iout' = Append(iout, ListingLine)
          /\ ipc' = "error"
          /\ UNCHANGED <<listing, dates, ix>>
    /\ UNCHANGED output
    /\ UNCHANGED <<fetchVars, sniffVars, uploadVars>>

\* line 24-27: one pass of the loop body
IndexStep ==
    /\ ipc = "for"
    /\ ix <= Len(listing)
    /\ dates' = dates \cup { date_pattern_search(listing[ix])[k] : k \in DOMAIN date_pattern_search(listing[ix]) }
    /\ ix' = ix + 1
    /\ UNCHANGED <<listing, ipc, output, iout>>
    /\ UNCHANGED <<fetchVars, sniffVars, uploadVars>>

\* what line 31-33 may do: the directory is made, the file opened and the text written
WriteTextOutcomes == {"written", "mkdir raises", "open raises", "write raises"}

\* what a write_text that raises may leave in the file: any proper prefix of the text
PartialTexts(t) == { Slice(t, k) : k \in 0..(Len(t) - 1) }

\* the lines 35-36 print
IndexLines(n) == << <<"Found", n>>, <<"Wrote", OUTPUT>> >>

\* line 29-36: the loop is over; the sorted dates are written as JSON and the two
\* closing lines printed. mkdir, open and write may raise and end the run: the first
\* two leave the path as it was, the third a file cut short. A print that raises ends the run
\* with the file whole and the first k of the two lines printed.
IndexWrite(outcome, k) ==
    /\ ipc = "for"
    /\ ix > Len(listing)
    /\ \/ /\ outcome = "written"
          /\ output' = <<[path |-> OUTPUT, text |-> json_dumps(sorted(dates))]>>
          /\ iout' = iout \o SubSeq(IndexLines(Cardinality(dates)), 1, k)
          /\ ipc' = IF k = 2 THEN "done" ELSE "error"
       \/ /\ outcome \in {"mkdir raises", "open raises"}
          /\ k = 0
          /\ ipc' = "error"
          /\ UNCHANGED <<output, iout>>
       \/ /\ outcome = "write raises"
          /\ k = 0
          /\ \E part \in PartialTexts(json_dumps(sorted(dates))) :
                output' = <<[path |-> OUTPUT, text |-> part]>>
          /\ ipc' = "error"
          /\ UNCHANGED iout
    /\ UNCHANGED <<listing, ix, dates>>
    /\ UNCHANGED <<fetchVars, sniffVars, uploadVars>>

----------------------------------------------------------------------------
\* up_to_HF.py, main() (SpecUpload)

REPO_ID == "bubcass/oireachtas-debates"
REPO_TYPE == "dataset"
DAIL_DIR == "/Users/david/Developer/2026-01-20_debates_edition/data/xml/dail"
NUM_WORKERS == 3
\* print_report_every=60, in seconds
PRINT_REPORT_EVERY == 60

\* paths below DAIL_DIR, relative to it
DirPaths ==
    { <<"2026-02-01_mul@.xml">>, <<"2026-02-03_mul@.xml">>, <<"2026", "2026-02-05_mul@.xml">>,
      <<"notes.txt">>, <<"old", "index.xml.bak">>, <<"README.md">> }

\* the last path segment matches *.xml
IsXmlName(p) == p[Len(p)] \in {"2026-02-01_mul@.xml", "2026-02-03_mul@.xml", "2026-02-05_mul@.xml"}

\* list(DAIL_DIR.rglob("*.xml")), as a set: the directory is listed in no set order
rglob_xml(fs) == { p \in fs : IsXmlName(p) }

\* what DAIL_DIR.exists() does: answers, or raises (Path.exists passes on every
\* OSError but "no such file" and its like: a parent that may not be searched, a
\* name too long)
ExistsOutcomes == {"answers", "exists raises"}

\* what line 13-17 may do when DAIL_DIR exists: exists() answers and the files are
\* listed, or exists() or rglob raises
PreflightOutcomes == {"listed", "exists raises", "rglob raises"}

\* what line 25-34 may do once upload_large_folder is called
UploadOutcomes == {"returns", "raises", "print raises"}

\* the failed existence check is passed over and the run goes on
UploadExit_goes_on(outcome) ==
    /\ upc = "check"
    /\ ~dirExists
    /\ \/ /\ outcome = "answers"
          /\ upc' = "upload"
       \/ /\ outcome = "exists raises"
          /\ upc' = "error"
    /\ UNCHANGED <<dirExists, dirFiles, uout, uploads>>
    /\ UNCHANGED <<fetchVars, sniffVars, indexVars>>

\* line 13-14: DAIL_DIR does not exist. exists() answers False and SystemExit is
\* raised, or exists() itself raises and its exception ends the run
UploadExit(outcome) ==
    /\ upc = "check"
    /\ ~dirExists
    /\ \/ /\ outcome = "answers"
          /\ upc' = "SystemExit"
       \/ /\ outcome = "exists raises"
          /\ upc' = "error"
    /\ UNCHANGED <<dirExists, dirFiles, uout, uploads>>
    /\ UNCHANGED <<fetchVars, sniffVars, indexVars>>

\* the lines 18-21 print, files[0] being any of the files found
PreflightLines(fs) ==
    IF rglob_xml(fs) = {}
    THEN { << <<"Uploading dail from", DAIL_DIR>>, <<"XML files found", 0>> >> }
    ELSE { << <<"Uploading dail from", DAIL_DIR>>, <<"XML files found", Cardinality(rglob_xml(fs))>>,
              <<"Example file", first>> >> : first \in rglob_xml(fs) }

\* line 13-21: DAIL_DIR exists; the files are listed and the preflight lines
\* printed; a print that raises ends the run with the first k lines printed, an
\* exists() or rglob that raises ends it with none
Preflight(outcome, k) ==
    /\ upc = "check"
    /\ dirExists
    /\ \/ /\ outcome = "listed"
          /\ \E lines \in PreflightLines(dirFiles) :
                /\ k <= Len(lines)
                /\ uout' = SubSeq(lines, 1, k)
                /\ upc' = IF k = Len(lines) THEN "upload" ELSE "error"
       \/ /\ outcome \in {"exists raises", "rglob raises"}
          /\ k = 0
          /\ upc' = "error"
          /\ UNCHANGED uout
    /\ UNCHANGED <<dirExists, dirFiles, uploads>>
    /\ UNCHANGED <<fetchVars, sniffVars, indexVars>>

\* a progress report upload_large_folder prints (print_report=True)
ReportLine == <<"report">>

\* line 23-34: upload_large_folder is called and prints n progress reports; it
\* returns and "Done." is printed, or it raises and ends the run, or it returns and
\* the print of line 34 raises
Upload(outcome, n) ==
    /\ upc = "upload"
    /\ uploads' = Append(uploads, [repo_id |-> REPO_ID, repo_type |-> REPO_TYPE,
                                   folder_path |-> DAIL_DIR, num_workers |-> NUM_WORKERS,
                                   print_report |-> TRUE,
                                   print_report_every |-> PRINT_REPORT_EVERY])
    /\ \/ /\ outcome = "returns"
          /\ uout' = uout \o Fill(ReportLine, n) \o << <<"Done.">> >>
          /\ upc' = "done"
       \/ /\ outcome \in {"raises", "print raises"}
          /\ uout' = uout \o Fill(ReportLine, n)
          /\ upc' = "error"
    /\ UNCHANGED <<dirExists, dirFiles>>
    /\ UNCHANGED <<fetchVars, sniffVars, indexVars>>

----------------------------------------------------------------------------
\* Specifications, one per script

\* a run of fetch_debates_2026.py, from the entry of main() on
FetchInit ==
    /\ START_DATE \in StartDates
    /\ END_DATE \in EndDates(START_DATE)
    /\ d = START_DATE
    /\ saved = 0
    /\ missing = 0
    /\ r = NoResponse
    /\ pc = "start"
    \* OUT_DIR may be there already and hold files of an earlier run
    /\ files \in { NoFiles, WriteFile(NoFiles, out_file_of(isoformat(START_DATE)), OldXml) }
    /\ events = <<>>
    /\ stdout = <<>>
    /\ raised = 0
    \* looks_like_xml is not called on its own
    /\ content = <<>> /\ verdict = <<>>
    \* the index generator is not run
    /\ listing = <<>> /\ ix = 1 /\ dates = {} /\ ipc = "idle" /\ output = <<>> /\ iout = <<>>
    \* the upload script is not run
    /\ dirExists = FALSE /\ dirFiles = {} /\ upc = "idle" /\ uout = <<>> /\ uploads = <<>>

FetchNext ==
    \/ \E outcome \in MkdirOutcomes : Start(outcome)
    \/ \E outcome \in GetOutcomes : Get(outcome)
    \/ Status404
    \/ \E outcome \in SaveOutcomes : StatusSave(outcome)
    \/ StatusOther
    \/ \E outcome \in PrintOutcomes : Except(outcome)
    \/ Advance
    \/ \E k \in 0..3 : Summary(k)

SpecFetch == FetchInit /\ [][FetchNext]_vars

\* one call of looks_like_xml on a body
SniffInit ==
    /\ content \in Bodies
    /\ verdict = <<>>
    \* the fetch script is not run
    /\ START_DATE = <<2026, 1, 1>> /\ END_DATE = <<2026, 1, 1>> /\ d = <<2026, 1, 1>>
    /\ saved = 0 /\ missing = 0 /\ r = NoResponse /\ pc = "idle"
    /\ files = NoFiles /\ events = <<>> /\ stdout = <<>> /\ raised = 0
    \* the index generator is not run
    /\ listing = <<>> /\ ix = 1 /\ dates = {} /\ ipc = "idle" /\ output = <<>> /\ iout = <<>>
    \* the upload script is not run
    /\ dirExists = FALSE /\ dirFiles = {} /\ upc = "idle" /\ uout = <<>> /\ uploads = <<>>

SniffNext == Sniff

SpecSniff == SniffInit /\ [][SniffNext]_vars

\* a run of generate_available_dates.py, from the entry of main() on
IndexInit ==
    /\ listing = <<>>
    /\ ix = 1
    /\ dates = {}
    /\ ipc = "start"
    \* OUTPUT may be there already, left by an earlier run
    /\ output \in { <<>>, <<[path |-> OUTPUT, text |-> OldIndex]>> }
    /\ iout = <<>>
    \* the fetch script is not run
    /\ START_DATE = <<2026, 1, 1>> /\ END_DATE = <<2026, 1, 1>> /\ d = <<2026, 1, 1>>
    /\ saved = 0 /\ missing = 0 /\ r = NoResponse /\ pc = "idle"
    /\ files = NoFiles /\ events = <<>> /\ stdout = <<>> /\ raised = 0
    \* looks_like_xml is not called on its own
    /\ content = <<>> /\ verdict = <<>>
    \* the upload script is not run
    /\ dirExists = FALSE /\ dirFiles = {} /\ upc = "idle" /\ uout = <<>> /\ uploads = <<>>

IndexNext ==
    \/ \E outcome \in ListOutcomes : IndexList(outcome)
    \/ IndexStep
    \/ \E outcome \in WriteTextOutcomes, k \in 0..2 : IndexWrite(outcome, k)

SpecIndex == IndexInit /\ [][IndexNext]_vars

\* a run of up_to_HF.py
UploadInit ==
    /\ dirExists \in BOOLEAN
    /\ dirFiles \in (IF dirExists THEN SUBSET DirPaths ELSE {{}})
    /\ upc = "check"
    /\ uout = <<>>
    /\ uploads = <<>>
    \* the fetch script is not run
    /\ START_DATE = <<2026, 1, 1>> /\ END_DATE = <<2026, 1, 1>> /\ d = <<2026, 1, 1>>
    /\ saved = 0 /\ missing = 0 /\ r = NoResponse /\ pc = "idle"
    /\ files = NoFiles /\ events = <<>> /\ stdout = <<>> /\ raised = 0
    \* looks_like_xml is not called on its own
    /\ content = <<>> /\ verdict = <<>>
    \* the index generator is not run
    /\ listing = <<>> /\ ix = 1 /\ dates = {} /\ ipc = "idle" /\ output = <<>> /\ iout = <<>>

UploadNext ==
    \/ \E outcome \in ExistsOutcomes : UploadExit(outcome)
    \/ \E outcome \in PreflightOutcomes, k \in 0..3 : Preflight(outcome, k)
    \/ \E outcome \in UploadOutcomes, n \in 0..MaxReports : Upload(outcome, n)

SpecUpload == UploadInit /\ [][UploadNext]_vars

----------------------------------------------------------------------------
\* Properties of the fetch loop (SpecFetch)

\* the requests issued so far, in the order issued
Gets == SelectSeq(events, LAMBDA e : e.op = "get")

\* the date a ten-character ISO string of ASCII digits denotes
ParseIso(s) ==
    << (s[1] - 48) * 1000 + (s[2] - 48) * 100 + (s[3] - 48) * 10 + (s[4] - 48),
       (s[6] - 48) * 10 + (s[7] - 48),
       (s[9] - 48) * 10 + (s[10] - 48) >>

\* s is YYYY-MM-DD in ASCII digits and names a day of the calendar
IsIsoDate(s) ==
    /\ Len(s) = 10
    /\ \A i \in {1, 2, 3, 4, 6, 7, 9, 10} : s[i] \in 48..57
    /\ s[5] = 45 /\ s[8] = 45
    /\ ParseIso(s)[1] >= 1
    /\ ParseIso(s)[2] \in 1..12
    /\ ParseIso(s)[3] \in 1..DaysInMonth(ParseIso(s)[1], ParseIso(s)[2])

\* the number of days of [START_DATE, END_DATE]
NumDays ==
    IF toordinal(END_DATE) >= toordinal(START_DATE)
    THEN toordinal(END_DATE) - toordinal(START_DATE) + 1
    ELSE 0

\* the day a request asked for
DayOfGet(i) == ParseIso(Gets[i].url[3])

\* the run is over: the summary was printed, or an exception left main()
Ended == pc \in {"done", "crashed"}

\* C1 as stated: the i-th request is for the i-th calendar day from START_DATE on,
\* a day no later than END_DATE, so the requests are one per day, in ascending
\* order and within the range; when the run is over every day of the range has
\* been requested, and none when START_DATE > END_DATE.
C1_Original ==
    /\ \A i \in 1..Len(Gets) :
          /\ Gets[i].url = <<BASE_URL, "/", Gets[i].url[3], "/debate/mul@/main.xml">>
          /\ IsIsoDate(Gets[i].url[3])
          /\ toordinal(DayOfGet(i)) = toordinal(START_DATE) + i - 1
          /\ toordinal(DayOfGet(i)) <= toordinal(END_DATE)
    /\ Ended => Len(Gets) = NumDays

\* the warning lines printed so far
Warnings == { j \in 1..Len(stdout) : stdout[j][1] = "warning" }

\* the dates of the iterations whose exception was caught and logged
Warned == { stdout[j][2] : j \in Warnings }

\* C6 as stated: every exception raised in an iteration is caught and logged (one
\* warning line per raising iteration); the run is not stopped by it: no run ends
\* before the loop is over, and when it is over every date after a date that
\* raised, up to END_DATE, has been requested.
C6_Original ==
    /\ pc \in {"while", "advance", "done", "crashed"} => Cardinality(Warnings) = raised
    /\ pc = "crashed" => ~LoopCond(d, END_DATE)
    /\ Ended =>
          \A w \in Warned :
             \A k \in 1..MaxDays :
                toordinal(ParseIso(w)) + k <= toordinal(END_DATE) =>
                   \E i \in 1..Len(Gets) : toordinal(DayOfGet(i)) = toordinal(ParseIso(w)) + k

\* the file name of the iteration under way
OwnFile == isoformat(d) \o MulXmlSuffix

\* every file but name is the same before and after the step
OthersUntouched(name) ==
    /\ DOMAIN files \subseteq DOMAIN files'
    /\ \A n \in DOMAIN files' : n # name => n \in DOMAIN files /\ files'[n] = files[n]

\* C8 as stated: once a response is there, the body is written to <d>_mul@.xml and
\* saved grows by one exactly if the status is 200 and looks_like_xml accepts the
\* body; otherwise no file changes and missing grows by one; no other file is
\* written.
C8_Original ==
    [][ pc = "status" =>
          /\ OthersUntouched(OwnFile)
          /\ IF r.status = 200 /\ looks_like_xml(r.content)
             THEN /\ OwnFile \in DOMAIN files' /\ files'[OwnFile] = r.content
                  /\ saved' = saved + 1 /\ missing' = missing
             ELSE /\ files' = files
                  /\ missing' = missing + 1 /\ saved' = saved ]_vars

\* C8 as amended: once a response is there, the body is written to <d>_mul@.xml and
\* saved grows by one exactly if the status is 200, looks_like_xml accepts the
\* body and write_bytes does not raise; if write_bytes raises, neither counter
\* changes and <d>_mul@.xml alone may have been created or changed; for every
\* other response, 404 included, no file changes and missing grows by one. No
\* step writes a file named for another date than d.
C8_SavedIffAcceptedAndWritten ==
    [][ /\ OthersUntouched(OwnFile)
        /\ pc # "status" => files' = files /\ saved' = saved /\ missing' = missing
        /\ pc = "status" =>
              IF r.status = 200 /\ looks_like_xml(r.content)
              THEN \/ /\ pc' \in {"advance", "except"}
                      /\ OwnFile \in DOMAIN files' /\ files'[OwnFile] = r.content
                      /\ saved' = saved + 1 /\ missing' = missing
                   \/ /\ pc' = "except"
                      /\ saved' = saved /\ missing' = missing
              ELSE /\ pc' = "advance"
                   /\ files' = files
                   /\ missing' = missing + 1 /\ saved' = saved ]_vars

\* a finished run in which the first date was counted missing and the file an
\* earlier run left under its name was not touched, and the body of the second
\* date was saved under the second date's name
C8_Witness ==
    /\ pc = "done"
    /\ saved = 1 /\ missing = 1
    /\ isoformat(START_DATE) \o MulXmlSuffix \in DOMAIN files
    /\ files[isoformat(START_DATE) \o MulXmlSuffix] = OldXml
    /\ isoformat(AddOneDay(START_DATE)) \o MulXmlSuffix \in DOMAIN files
    /\ files[isoformat(AddOneDay(START_DATE)) \o MulXmlSuffix] = GoodXml

\* C9 as stated: requests and sleeps alternate, a request first: every request,
\* whatever came of it, is followed by one sleep of SLEEP_SECONDS, so exactly one
\* sleep lies between two consecutive requests and none is missing when the run
\* is over.
C9_Original ==
    /\ \A i \in 1..Len(events) :
          IF i % 2 = 1 THEN events[i].op = "get"
          ELSE events[i].op = "sleep" /\ events[i].url = <<SLEEP_TENTHS>>
    /\ pc \in {"while", "done", "crashed"} => Len(events) % 2 = 0
    /\ pc \in {"status", "except", "advance"} => Len(events) % 2 = 1

\* the <<"Saved XMLs", n>> and <<"No record / skipped", n>> lines of the summary
SummarySaved == stdout[Len(stdout) - 1][2]
SummaryMissing == stdout[Len(stdout)][2]

\* C10 as stated: between iterations, saved + missing + (iterations that raised) is
\* the number of dates processed; a step changes at most one of the two counters,
\* by exactly one; the summary's saved + missing is the number of days of the
\* range exactly if no iteration raised.
C10_Original ==
    /\ [] /\ pc \in {"while", "done"} =>
                saved + missing + raised = toordinal(d) - toordinal(START_DATE)
          /\ pc = "done" =>
                /\ SummarySaved = saved /\ SummaryMissing = missing
                /\ (SummarySaved + SummaryMissing = NumDays) <=> (raised = 0)
    /\ [][ \/ saved' = saved /\ missing' = missing
           \/ saved' = saved + 1 /\ missing' = missing
           \/ saved' = saved /\ missing' = missing + 1 ]_vars

----------------------------------------------------------------------------
\* Properties of looks_like_xml (SpecSniff)

\* C2: a body of fewer than 100 bytes is rejected, whatever it holds.
C2_ShortBodiesRejected ==
    (verdict # <<>> /\ Len(content) < 100) => verdict = <<FALSE>>

\* a 99-byte body that starts with <?xml was rejected
C2_Witness ==
    /\ verdict = <<FALSE>>
    /\ Len(content) = 99
    /\ SubSeq(content, 1, 5) = XmlDecl

\* c begins with the text p, letter case aside
BeginsWithAnyCase(c, p) ==
    /\ Len(c) >= Len(p)
    /\ \A i \in 1..Len(p) : c[i] = p[i] \/ (p[i] \in 97..122 /\ c[i] = p[i] - 32)

\* C3: a body that begins with <!doctype html or <html, in any letter case, is
\* rejected, whatever its size and whatever follows.
C3_HtmlBodiesRejected ==
    (verdict # <<>> /\ (BeginsWithAnyCase(content, DoctypeHtml) \/ BeginsWithAnyCase(content, HtmlTag)))
        => verdict = <<FALSE>>

\* a body of 100 bytes or more that begins with <HtML was rejected
C3_Witness ==
    /\ verdict = <<FALSE>>
    /\ Len(content) >= 100
    /\ SubSeq(content, 1, 5) = <<60, 72, 116, 77, 76>>

----------------------------------------------------------------------------
\* Properties of the upload script (SpecUpload)

\* C5 as stated: when DAIL_DIR does not exist the run ends in SystemExit with
\* upload_large_folder never called, and nothing printed before.
C5_Original ==
    ~dirExists => /\ uploads = <<>>
                  /\ uout = <<>>
                  /\ upc \in {"check", "SystemExit"}

\* C5 as amended: when DAIL_DIR does not exist the run ends, in SystemExit or in
\* the exception exists() raised, with upload_large_folder never called and
\* nothing printed before.
C5_NoUploadWithoutDirectory ==
    ~dirExists => /\ uploads = <<>>
                  /\ uout = <<>>
                  /\ upc \in {"check", "SystemExit", "error"}

\* the existence check failed and the process has exited
C5_Witness == upc = "SystemExit" /\ ~dirExists /\ uploads = <<>>

----------------------------------------------------------------------------
\* Properties of the index generator (SpecIndex)

\* the positions of the quotes of a JSON text; no string written holds a quote
QuotesOf(t) == { i \in 1..Len(t) : t[i] = 34 }

\* the k-th smallest member of a set of numbers
Nth(Q, k) == CHOOSE i \in Q : Cardinality({ j \in Q : j < i }) = k - 1

HexVal(c) == IF c \in 48..57 THEN c - 48 ELSE c - 87

Hex4(s, i) == HexVal(s[i]) * 4096 + HexVal(s[i + 1]) * 256 + HexVal(s[i + 2]) * 16 + HexVal(s[i + 3])

RECURSIVE Unescape(_)
\* the string a JSON string body denotes: \uXXXX escapes, surrogate pairs included
Unescape(s) ==
    IF s = <<>> THEN <<>>
    ELSE IF Len(s) >= 6 /\ s[1] = 92 /\ s[2] = 117
    THEN IF Hex4(s, 3) \in 55296..56319 /\ Len(s) >= 12 /\ s[7] = 92 /\ s[8] = 117
         THEN <<65536 + (Hex4(s, 3) - 55296) * 1024 + (Hex4(s, 9) - 56320)>>
              \o Unescape(SubSeq(s, 13, Len(s)))
         ELSE <<Hex4(s, 3)>> \o Unescape(SubSeq(s, 7, Len(s)))
    ELSE <<Head(s)>> \o Unescape(Tail(s))

\* the strings of the JSON array t, in order
JsonStrings(t) ==
    [ k \in 1..(Cardinality(QuotesOf(t)) \div 2) |->
        Unescape(SubSeq(t, Nth(QuotesOf(t), 2 * k - 1) + 1, Nth(QuotesOf(t), 2 * k) - 1)) ]

\* the strings of the array written to data/available-dates.json
Written == JsonStrings(output[1].text)

\* f ends in <4 digits>-<2 digits>-<2 digits>_mul@.xml
EndsInDatedName(f) ==
    /\ Len(f) >= 19
    /\ SubSeq(f, Len(f) - 8, Len(f)) = MulXmlSuffix
    /\ DateShape(SubSeq(f, Len(f) - 18, Len(f) - 9))

\* the date substrings of the names of the listing that end so
DatesOfListing ==
    { SubSeq(listing[k], Len(listing[k]) - 18, Len(listing[k]) - 9) :
        k \in { j \in 1..Len(listing) : EndsInDatedName(listing[j]) } }

\* C4 as stated: the array written holds exactly the date substrings of the names
\* that end in <4 digits>-<2 digits>-<2 digits>_mul@.xml, each once, in ascending
\* order, and nothing for any other name.
C4_Original ==
    ipc = "done" =>
        /\ { Written[k] : k \in 1..Len(Written) } = DatesOfListing
        /\ \A k \in 1..(Len(Written) - 1) : SeqLess(Written[k], Written[k + 1])

\* C7 as stated: every string of the array written is an ISO-8601 calendar date,
\* a real year-month-day.
C7_Original ==
    ipc = "done" => \A k \in 1..Len(Written) : IsIsoDate(Written[k])

====
